---- MODULE Spec2Model ----
(***************************************************************************)
(* jest-screenshot-odiff: the comparator adapter (odiff-sync.ts, compare), *)
(* the verdict engine (checkImages) and the snapshot lifecycle controller  *)
(* (toMatchImageSnapshot).                                                 *)
(*                                                                         *)
(* Representation.  Strings the adapter parses are sequences of one-       *)
(* character strings.  Fractions (diffPercentage, pixelThresholdRelative)  *)
(* are fixed-point integers counting units of 1/Scale: parseFloat of       *)
(* "10.00" is 100000, divided by 100 it is 1000, the fraction 0.10.        *)
(* File contents are small integers; Undefined stands for an absent file,  *)
(* an absent option and JavaScript's undefined.                            *)
(***************************************************************************)
EXTENDS Integers, Sequences, FiniteSets, TLC

\* ---------------------------------------------------------------- bounds
MaxThreshold == 1
MaxDiff == MaxThreshold + 1
MaxCalls == 2

\* ------------------------------------------------------------- sentinels
Undefined == -1
NaN == -2
Null == -3

\* ---------------------------------------------------- program constants
LayoutDiffCode == 21
PixelDiffCode == 22
Scale == 10000

\* ------------------------------------------------------------ input sets
TestNames == {"t1", "t2"}
Bytes == {1, 2}
UpdateModes == {"none", "new", "all"}
CustomPath == <<"custom", 1>>
SnapshotPaths == (TestNames \X (1..MaxCalls)) \cup {CustomPath}
ReportPaths == TestNames \X (1..MaxCalls)
BundleFiles == {"received.png", "diff.png", "snapshot.png", "info.json"}

AbsoluteThresholds == {Undefined} \cup (0..MaxThreshold)
RelativeThresholds == {Undefined, 0, 1000}

Configurations ==
    [pixelThresholdAbsolute : AbsoluteThresholds,
     pixelThresholdRelative : RelativeThresholds,
     noReport : BOOLEAN]

\* `this`: a Jest matcher context carries the test name and the .not flag;
\* any other value fails isJestTestConfiguration
JestContexts == [isJest : {TRUE}, isNot : {FALSE}, currentTestName : TestNames]
RejectedContexts ==
    {[isJest |-> FALSE],
     [isJest |-> TRUE, isNot |-> TRUE, currentTestName |-> "t1"]}

\* the optional third argument: {} or {path: ...}
Parameters == {[other |-> Undefined], [path |-> CustomPath]}

\* ------------------------------------------------------ string helpers
DigitChars == <<"0", "1", "2", "3", "4", "5", "6", "7", "8", "9">>

IsDigit(c) == \E i \in 1..10 : DigitChars[i] = c

DigitVal(c) == (CHOOSE i \in 1..10 : DigitChars[i] = c) - 1

IsSpace(c) == c = "\n" \/ c = " "

RECURSIVE Render(_)
Render(n) == IF n < 10 THEN <<DigitChars[n + 1]>>
             ELSE Append(Render(n \div 10), DigitChars[(n % 10) + 1])

\* Array.prototype.join('') of e.output = [null, stdout, stderr]
JoinOutput(output) == output.stdout \o output.stderr

RECURSIVE TrimLeft(_)
TrimLeft(s) == IF s # <<>> /\ IsSpace(Head(s)) THEN TrimLeft(Tail(s)) ELSE s

RECURSIVE TrimRight(_)
TrimRight(s) == IF s # <<>> /\ IsSpace(s[Len(s)])
                THEN TrimRight(SubSeq(s, 1, Len(s) - 1)) ELSE s

Trim(s) == TrimRight(TrimLeft(s))

\* String.prototype.split(sep): always at least one (possibly empty) part
RECURSIVE Split(_, _)
Split(s, sep) ==
    IF \E i \in 1..Len(s) : s[i] = sep
    THEN LET i == CHOOSE k \in 1..Len(s) :
                     s[k] = sep /\ \A j \in 1..(k - 1) : s[j] # sep
         IN <<SubSeq(s, 1, i - 1)>> \o Split(SubSeq(s, i + 1, Len(s)), sep)
    ELSE <<s>>

\* length of the longest prefix of s made of digits
RECURSIVE DigitPrefix(_)
DigitPrefix(s) == IF s # <<>> /\ IsDigit(Head(s)) THEN 1 + DigitPrefix(Tail(s)) ELSE 0

RECURSIVE DigitsValue(_)
DigitsValue(s) == IF s = <<>> THEN 0
                  ELSE 10 * DigitsValue(SubSeq(s, 1, Len(s) - 1)) + DigitVal(s[Len(s)])

\* parseInt: leading whitespace skipped, longest digit prefix, NaN if none
ParseInt(str) ==
    LET s == TrimLeft(str)
        n == DigitPrefix(s)
    IN IF n = 0 THEN NaN ELSE DigitsValue(SubSeq(s, 1, n))

\* parseFloat, in units of 1/Scale: digits, then optionally "." and digits
\* (the first two decimals are kept); NaN when neither part has a digit
ParseFloat(str) ==
    LET s == TrimLeft(str)
        n == DigitPrefix(s)
        rest == SubSeq(s, n + 1, Len(s))
        hasDot == rest # <<>> /\ Head(rest) = "."
        frac == IF hasDot THEN Tail(rest) ELSE <<>>
        m == IF hasDot THEN DigitPrefix(frac) ELSE 0
        d1 == IF m >= 1 THEN DigitVal(frac[1]) ELSE 0
        d2 == IF m >= 2 THEN DigitVal(frac[2]) ELSE 0
    IN IF n = 0 /\ m = 0 THEN NaN
       ELSE Scale * DigitsValue(SubSeq(s, 1, n)) + (Scale \div 10) * d1 + (Scale \div 100) * d2

\* x / 100 (exact here: a parsed value has at most two decimals)
DivideBy100(x) == IF x = NaN THEN NaN ELSE x \div 100

\* JavaScript's a > b: false as soon as one side is NaN
GreaterThan(a, b) == a # NaN /\ b # NaN /\ a > b

\* typeof x === "number"
IsNumber(x) == x # Undefined

\* ------------------------------------------------- the odiff invocation
\* What one run of the odiff binary can end with: status 0 is a normal
\* return of execSync, any other status an exception e with e.status and
\* e.output; Null is the status of a run killed by a signal.
PixelDiffStdout(count, percent) == Render(count) \o <<";">> \o percent \o <<"\n">>

WithinTolerance == <<"1", "0", ".", "0", "0">>
BeyondTolerance == <<"5", "0", ".", "0", "0">>

CrashCode == 1

NoOutput == [stdout |-> <<>>, stderr |-> <<>>]

EngineResults ==
    {[status |-> 0, output |-> NoOutput],
     [status |-> LayoutDiffCode, output |-> NoOutput],
     [status |-> CrashCode, output |-> [stdout |-> <<>>, stderr |-> <<"x">>]],
     [status |-> Null, output |-> NoOutput]}
    \cup {[status |-> PixelDiffCode,
           output |-> [stdout |-> PixelDiffStdout(c, BeyondTolerance), stderr |-> <<>>]] :
             c \in 1..MaxDiff}
    \cup {[status |-> PixelDiffCode,
           output |-> [stdout |-> PixelDiffStdout(1, WithinTolerance), stderr |-> <<>>]]}
    \cup {[status |-> PixelDiffCode, output |-> [stdout |-> so, stderr |-> <<>>]] :
             so \in {<<>>, <<"x", ";", "y">>}}

\* odiff writes the diff mask only when it found a pixel-level difference
DiffMaskWritten(engine) == engine.status = PixelDiffCode

\* ------------------------------------------------------------- compare
Truthy(x) == x # Undefined /\ x # Null /\ x # NaN /\ x # 0

compare(engine) ==
    IF engine.status = 0
    THEN [threw |-> FALSE, match |-> TRUE, reason |-> "undefined",
          diffCount |-> 0, diffPercentage |-> 0]
    ELSE IF Truthy(engine.status) /\ engine.status = LayoutDiffCode
    THEN [threw |-> FALSE, match |-> FALSE, reason |-> "layout-diff",
          diffCount |-> 0, diffPercentage |-> 0]
    ELSE IF Truthy(engine.status) /\ engine.status = PixelDiffCode
    THEN LET parts == Split(Trim(JoinOutput(engine.output)), ";")
             diffCount == parts[1]
             diffPercentage == IF Len(parts) >= 2 THEN parts[2] ELSE <<"0">>
         IN [threw |-> FALSE, match |-> FALSE, reason |-> "pixel-diff",
             diffCount |-> ParseInt(diffCount),
             diffPercentage |-> DivideBy100(ParseFloat(diffPercentage))]
    ELSE [threw |-> TRUE, match |-> FALSE, reason |-> "undefined",
          diffCount |-> Undefined, diffPercentage |-> Undefined]

\* --------------------------------------------------------- checkImages
AbsoluteReached(configuration, outcome) ==
    /\ IsNumber(configuration.pixelThresholdAbsolute)
    /\ outcome.diffCount # NaN
    /\ outcome.diffCount >= configuration.pixelThresholdAbsolute

AbsoluteExceeded(configuration, outcome) ==
    /\ IsNumber(configuration.pixelThresholdAbsolute)
    /\ GreaterThan(outcome.diffCount, configuration.pixelThresholdAbsolute)

RelativeExceeded(configuration, outcome) ==
    /\ IsNumber(configuration.pixelThresholdRelative)
    /\ GreaterThan(outcome.diffPercentage, configuration.pixelThresholdRelative)

LayoutDiffers(outcome) == outcome.match = FALSE /\ outcome.reason = "layout-diff"

Fail(rule, outcome) ==
    [threw |-> FALSE, pass |-> FALSE, message |-> rule,
     changedRelative |-> outcome.diffPercentage, changedPixels |-> outcome.diffCount]

Pass == [threw |-> FALSE, pass |-> TRUE, message |-> "undefined",
         changedRelative |-> Undefined, changedPixels |-> Undefined]

Thrown == [threw |-> TRUE, pass |-> FALSE, message |-> "undefined",
           changedRelative |-> Undefined, changedPixels |-> Undefined]

DecideRelativeFirst(outcome, configuration) ==
    IF RelativeExceeded(configuration, outcome) THEN Fail("relative", outcome)
    ELSE IF AbsoluteExceeded(configuration, outcome) THEN Fail("absolute", outcome)
    ELSE IF LayoutDiffers(outcome) THEN Fail("layout", outcome)
    ELSE Pass

\* the three rules of checkImages, first match wins
Decide(outcome, configuration) ==
    IF AbsoluteExceeded(configuration, outcome) THEN Fail("absolute", outcome)
    ELSE IF RelativeExceeded(configuration, outcome) THEN Fail("relative", outcome)
    ELSE IF LayoutDiffers(outcome) THEN Fail("layout", outcome)
    ELSE Pass

checkImages(engine, configuration) ==
    LET outcome == compare(engine)
    IN IF outcome.threw THEN Thrown ELSE Decide(outcome, configuration)

\* ------------------------------------------------------------- state
VARIABLES
    updateSnapshot,   \* snapshotState._updateSnapshot, fixed for the run
    configuration,    \* the configuration handed to jestScreenshot
    counters,         \* snapshotState._counters: test name -> occurrences
    added,            \* snapshotState.added
    updated,          \* snapshotState.updated
    files,            \* reference images on disk: path -> bytes or Undefined
    reports,          \* report directories: path -> the files written there
    calls,            \* per test name, the calls that passed validation
    last              \* what the latest call did and how it ended

vars == <<updateSnapshot, configuration, counters, added, updated, files,
          reports, calls, last>>

NoInfo == [changedPixels |-> Undefined, changedRelative |-> Undefined,
           snapshotNumber |-> Undefined, message |-> "undefined"]

NoVerdict == [threw |-> FALSE, pass |-> FALSE, message |-> "undefined",
              changedRelative |-> Undefined, changedPixels |-> Undefined]

NoCall ==
    [kind |-> "none", error |-> "none", pass |-> FALSE, message |-> "undefined",
     testName |-> "none", snapshotNumber |-> 0, snapshotPath |-> CustomPath,
     received |-> Undefined, existed |-> FALSE, compared |-> FALSE,
     engine |-> [status |-> Null, output |-> NoOutput],
     verdict |-> NoVerdict, reported |-> {}, info |-> NoInfo,
     context |-> [isJest |-> FALSE]]

\* The run starts with the approved references of test "t1" on disk and
\* none for test "t2" (a test new to the suite).
InitialFiles ==
    [p \in SnapshotPaths |-> IF p[1] = "t1" THEN 1 ELSE Undefined]

Init ==
    /\ updateSnapshot \in UpdateModes
    /\ configuration \in Configurations
    /\ counters = [n \in TestNames |-> Undefined]
    /\ added = 0
    /\ updated = 0
    /\ files = InitialFiles
    /\ reports = [p \in ReportPaths |-> {}]
    /\ calls = [n \in TestNames |-> 0]
    /\ last = NoCall

\* ------------------------------------------------ toMatchImageSnapshot
Total(c) == c["t1"] + c["t2"]

\* x || 0
OrZero(x) == IF Truthy(x) THEN x ELSE 0

NextSnapshotNumberShared(state, currentTestName) ==
    OrZero(state["t1"]) + OrZero(state["t2"]) + 1

NextSnapshotNumber(state, currentTestName) == OrZero(state[currentTestName]) + 1

\* filenames.ts derives both paths from the test name and its counter
getSnapshotPath(currentTestName, snapshotNumber) == <<currentTestName, snapshotNumber>>

getReportPath(currentTestName, snapshotNumber) == <<currentTestName, snapshotNumber>>

MayCreateOnlyAll(mode) == mode = "all"

MayCreate(mode) == mode = "new" \/ mode = "all"

MayUpdateNever(mode) == FALSE

MayUpdateAlsoNew(mode) == mode = "new" \/ mode = "all"

MayUpdate(mode) == mode = "all"

\* The report step: received.png, then the copy of the temporary diff mask
\* (copyFileSync fails on a missing source), then snapshot.png, info.json.
WriteReport(written, engine, verdict, snapshotNumber) ==
    IF ~DiffMaskWritten(engine)
    THEN [threw |-> TRUE, written |-> written \cup {"received.png"}, info |-> NoInfo]
    ELSE [threw |-> FALSE, written |-> written \cup BundleFiles,
          info |-> [changedPixels |-> verdict.changedPixels,
                    changedRelative |-> verdict.changedRelative,
                    snapshotNumber |-> snapshotNumber,
                    message |-> verdict.message]]

toMatchImageSnapshot(context, received, parameters) ==
    IF ~context.isJest THEN
        /\ last' = [NoCall EXCEPT !.kind = "throw", !.error = "context",
                                 !.context = context]
        /\ UNCHANGED <<updateSnapshot, configuration, counters, added, updated,
                       files, reports, calls>>
    ELSE IF context.isNot THEN
        /\ last' = [NoCall EXCEPT !.kind = "throw", !.error = "isNot",
                                 !.context = context]
        /\ UNCHANGED <<updateSnapshot, configuration, counters, added, updated,
                       files, reports, calls>>
    ELSE
        LET currentTestName == context.currentTestName
            snapshotNumber == NextSnapshotNumber(counters, currentTestName)
            snapshotPath == IF "path" \in DOMAIN parameters THEN parameters.path
                            ELSE getSnapshotPath(currentTestName, snapshotNumber)
            reportPath == getReportPath(currentTestName, snapshotNumber)
            call == [NoCall EXCEPT !.context = context,
                                   !.testName = currentTestName,
                                   !.received = received,
                                   !.snapshotNumber = snapshotNumber,
                                   !.snapshotPath = snapshotPath]
        IN
        /\ Total(calls) < MaxCalls
        /\ calls' = [calls EXCEPT ![currentTestName] = @ + 1]
        /\ counters' = [counters EXCEPT ![currentTestName] = snapshotNumber]
        /\ UNCHANGED <<updateSnapshot, configuration>>
        /\ IF files[snapshotPath] = Undefined THEN
               IF MayCreate(updateSnapshot) THEN
                   /\ added' = added + 1
                   /\ files' = [files EXCEPT ![snapshotPath] = received]
                   /\ last' = [call EXCEPT !.kind = "return", !.pass = TRUE]
                   /\ UNCHANGED <<updated, reports>>
               ELSE
                   /\ last' = [call EXCEPT !.kind = "return", !.pass = FALSE,
                                           !.message = "not written"]
                   /\ UNCHANGED <<added, updated, files, reports>>
           ELSE
               \E engine \in EngineResults :
               \E verdict \in {checkImages(engine, configuration)} :
               LET compared == [call EXCEPT !.existed = TRUE, !.compared = TRUE,
                                            !.engine = engine]
                   judged == [compared EXCEPT !.verdict = verdict]
               IN
               IF verdict.threw THEN
                   /\ last' = [judged EXCEPT !.kind = "throw", !.error = "engine"]
                   /\ UNCHANGED <<added, updated, files, reports>>
               ELSE IF ~verdict.pass /\ MayUpdate(updateSnapshot) THEN
                   /\ updated' = updated + 1
                   /\ files' = [files EXCEPT ![snapshotPath] = received]
                   /\ last' = [judged EXCEPT !.kind = "return", !.pass = TRUE]
                   /\ UNCHANGED <<added, reports>>
               ELSE IF ~verdict.pass /\ ~configuration.noReport THEN
                   LET r == WriteReport(reports[reportPath], engine, verdict,
                                        snapshotNumber)
                   IN
                   /\ reports' = [reports EXCEPT ![reportPath] = r.written]
                   /\ last' = IF r.threw
                              THEN [judged EXCEPT !.kind = "throw", !.error = "ENOENT",
                                       !.reported = r.written]
                              ELSE [judged EXCEPT !.kind = "return", !.pass = FALSE,
                                       !.message = verdict.message,
                                       !.reported = r.written, !.info = r.info]
                   /\ UNCHANGED <<added, updated, files>>
               ELSE
                   /\ last' = [judged EXCEPT !.kind = "return", !.pass = verdict.pass,
                                             !.message = verdict.message]
                   /\ UNCHANGED <<added, updated, files, reports>>

\* A rejected context makes the call throw before it reads its arguments.
Next ==
    \/ \E context \in JestContexts, received \in Bytes, parameters \in Parameters :
           toMatchImageSnapshot(context, received, parameters)
    \/ \E context \in RejectedContexts :
           toMatchImageSnapshot(context, 1, [other |-> Undefined])

Spec == Init /\ [][Next]_vars

\* ================================================================ claims
Called == last.kind # "none"
Returned == last.kind = "return"
Threw == last.kind = "throw"
Validated == Called /\ last.context.isJest /\ ~last.context.isNot
Rejected == Called /\ ~Validated
Outcome == compare(last.engine)
NoThresholds ==
    /\ configuration.pixelThresholdAbsolute = Undefined
    /\ configuration.pixelThresholdRelative = Undefined

\* "<count>;<percentage>": digits, a semicolon, digits with optional decimals
AllDigits(str) == str # <<>> /\ \A i \in 1..Len(str) : IsDigit(str[i])

IsDecimal(str) ==
    \/ AllDigits(str)
    \/ \E i \in 2..(Len(str) - 1) :
          /\ str[i] = "."
          /\ AllDigits(SubSeq(str, 1, i - 1))
          /\ AllDigits(SubSeq(str, i + 1, Len(str)))

WellFormed(output) ==
    LET parts == Split(Trim(JoinOutput(output)), ";")
    IN Len(parts) = 2 /\ AllDigits(parts[1]) /\ IsDecimal(parts[2])

Recognised(engine) ==
    \/ engine.status = 0
    \/ engine.status = LayoutDiffCode
    \/ engine.status = PixelDiffCode /\ WellFormed(engine.output)

\* C1: with no threshold configured, a plain pixel difference (diffCount > 0)
\* gets a failing verdict, and the call returns pass = false unless the
\* update mode is "all".
C1_ZeroToleranceByDefault ==
    (/\ Validated /\ last.compared /\ NoThresholds
     /\ Outcome.reason = "pixel-diff" /\ Outcome.diffCount > 0)
    => /\ ~last.verdict.pass
       /\ updateSnapshot # "all" => Returned /\ ~last.pass

\* C2: a validated call whose reference is missing, or whose comparator
\* returned one of its three outcomes, returns a verdict and never throws.
C2_FailuresAreReturned ==
    (Validated /\ (~last.existed \/ (last.compared /\ ~Outcome.threw)))
    => Returned

\* C3: a rejected context, and a comparator run that ends with anything but
\* exit 0, code 21 or code 22 with a well-formed output, make the call throw.
C3_FatalErrorsAreThrown ==
    /\ Rejected => Threw
    /\ (Validated /\ last.compared /\ ~Recognised(last.engine)) => Threw

\* C4: a missing reference is created under "new" and "all" (pass, received
\* bytes on disk, added + 1) and reported as "not written" otherwise (no file,
\* no report, counters unchanged); the comparator is not invoked either way.
C4_MissingReferenceLifecycle ==
    [][(Validated' /\ files[last'.snapshotPath] = Undefined) =>
          /\ ~last'.compared
          /\ updated' = updated
          /\ reports' = reports
          /\ last'.reported = {}
          /\ \A p \in SnapshotPaths \ {last'.snapshotPath} : files'[p] = files[p]
          /\ IF updateSnapshot \in {"new", "all"}
             THEN /\ Returned' /\ last'.pass
                  /\ files'[last'.snapshotPath] = last'.received
                  /\ added' = added + 1
             ELSE /\ Returned' /\ ~last'.pass
                  /\ last'.message = "not written"
                  /\ files' = files
                  /\ added' = added]_vars

C4_Witness ==
    /\ Validated /\ Returned /\ ~last.existed /\ last.pass
    /\ updateSnapshot = "new" /\ added = 1
    /\ files[last.snapshotPath] = last.received

\* C5: under update mode "all" a failing verdict on an existing reference
\* overwrites it with the received bytes, adds one to updated, writes no
\* report and passes; no call returns pass = false under "all".
C5_UpdateAllWins ==
    [][updateSnapshot = "all" =>
          /\ (Returned' /\ Called') => last'.pass
          /\ (/\ Validated' /\ files[last'.snapshotPath] # Undefined
              /\ ~last'.verdict.threw /\ ~last'.verdict.pass)
             => /\ Returned' /\ last'.pass
                /\ files'[last'.snapshotPath] = last'.received
                /\ updated' = updated + 1
                /\ added' = added
                /\ reports' = reports
                /\ last'.reported = {}]_vars

C5_Witness ==
    /\ updateSnapshot = "all" /\ ~configuration.noReport
    /\ Validated /\ last.compared /\ ~last.verdict.threw /\ ~last.verdict.pass
    /\ Returned /\ last.pass /\ updated = 1
    /\ files[last.snapshotPath] = last.received

\* C6: the call leaves a complete bundle at its report path exactly when the
\* reference existed, the verdict failed, the mode is not "all" and noReport
\* is false; info.json then carries the comparator's diffCount and the call's
\* occurrence index; with noReport the failing call returns pass = false.
C6_BundleForReportedFailures ==
    Validated =>
       LET failing == /\ last.compared /\ ~last.verdict.threw /\ ~last.verdict.pass
                      /\ updateSnapshot # "all"
       IN /\ (failing /\ ~configuration.noReport)
             <=> (Returned /\ last.reported = BundleFiles)
          /\ last.reported = BundleFiles
             => /\ last.info.changedPixels = Outcome.diffCount
                /\ last.info.snapshotNumber = last.snapshotNumber
          /\ (failing /\ configuration.noReport)
             => Returned /\ ~last.pass /\ last.reported = {}

\* C7: the k-th validated call of a test name uses occurrence index k, other
\* names' counters are untouched, and a rejected call changes no counter.
C7_OccurrenceIndices ==
    [][/\ Validated' =>
           /\ last'.snapshotNumber = calls'[last'.testName]
           /\ counters'[last'.testName] = last'.snapshotNumber
           /\ last'.snapshotNumber = OrZero(counters[last'.testName]) + 1
           /\ \A n \in TestNames \ {last'.testName} : counters'[n] = counters[n]
       /\ Rejected' => counters' = counters /\ added' = added /\ updated' = updated
      ]_vars

C7_Witness ==
    /\ Validated /\ last.snapshotNumber = 2 /\ calls[last.testName] = 2
    /\ last.compared /\ Returned

\* C8: a dimension mismatch has diffCount = 0 and diffPercentage = 0 and
\* fails through the dimension rule whatever (absent or non-negative)
\* thresholds are configured.
C8_DimensionMismatchFails ==
    (Validated /\ last.compared /\ last.engine.status = LayoutDiffCode)
    => /\ Outcome.reason = "layout-diff"
       /\ Outcome.diffCount = 0 /\ Outcome.diffPercentage = 0
       /\ last.verdict = Fail("layout", Outcome)
       /\ last.verdict.changedPixels = 0 /\ last.verdict.changedRelative = 0

C8_Witness ==
    /\ Validated /\ last.compared /\ last.engine.status = LayoutDiffCode
    /\ configuration.pixelThresholdAbsolute = 0
    /\ configuration.pixelThresholdRelative = 0
    /\ last.verdict.message = "layout"

\* C9 as stated: with pixelThresholdAbsolute = T, diffCount = T passes and
\* diffCount = T + 1 fails by the absolute rule.
C9_AbsoluteBoundaryAsStated ==
    (/\ Validated /\ last.compared /\ ~Outcome.threw
     /\ IsNumber(configuration.pixelThresholdAbsolute))
    => /\ Outcome.diffCount = configuration.pixelThresholdAbsolute
          => last.verdict.pass
       /\ Outcome.diffCount = configuration.pixelThresholdAbsolute + 1
          => last.verdict = Fail("absolute", Outcome)

\* C9 amended: diffCount = T is not failed by the absolute rule, and passes
\* unless the relative threshold is exceeded or the dimensions differ;
\* diffCount = T + 1 fails by the absolute rule, which goes first.
C9_AbsoluteBoundary ==
    (/\ Validated /\ last.compared /\ ~Outcome.threw
     /\ IsNumber(configuration.pixelThresholdAbsolute))
    => /\ Outcome.diffCount = configuration.pixelThresholdAbsolute
          => /\ last.verdict.message # "absolute"
             /\ last.verdict.pass
                <=> ~(\/ Outcome.reason = "layout-diff"
                      \/ /\ configuration.pixelThresholdRelative # Undefined
                         /\ Outcome.diffPercentage > configuration.pixelThresholdRelative)
       /\ Outcome.diffCount = configuration.pixelThresholdAbsolute + 1
          => last.verdict = Fail("absolute", Outcome)

C9_Witness ==
    /\ Validated /\ last.compared
    /\ configuration.pixelThresholdAbsolute = 1
    /\ configuration.pixelThresholdRelative # Undefined
    /\ Outcome.diffCount = 2
    /\ Outcome.diffPercentage > configuration.pixelThresholdRelative
    /\ last.verdict.message = "absolute"

\* C10: a reference file, added and updated change only in a call that found
\* the reference absent under "new" or "all", or found it present, failed
\* the comparison and ran under "all"; the change is that one file.
C10_ReferenceImmutability ==
    [][(files' # files \/ added' # added \/ updated' # updated) =>
          /\ Validated'
          /\ \A p \in SnapshotPaths \ {last'.snapshotPath} : files'[p] = files[p]
          /\ \/ /\ files[last'.snapshotPath] = Undefined
                /\ updateSnapshot \in {"new", "all"}
                /\ updated' = updated
             \/ /\ files[last'.snapshotPath] # Undefined
                /\ last'.compared /\ ~last'.verdict.threw /\ ~last'.verdict.pass
                /\ updateSnapshot = "all"
                /\ added' = added]_vars

C10_Witness ==
    /\ updateSnapshot = "new" /\ Validated /\ last.compared
    /\ ~last.verdict.threw /\ ~last.verdict.pass
    /\ files[last.snapshotPath] = 1 /\ last.received = 2
    /\ added = 0 /\ updated = 0

====
